---- MODULE Spec2Model ----
(***************************************************************************)
(* Transcoding-job subsystem of the drone video analysis server:          *)
(* the playback request (stream_recording), the Celery submission path    *)
(* (submit_processing_job), the Celery task (process_recording_task),     *)
(* the two status polls and the recording's metadata they share.          *)
(*                                                                         *)
(* One recording is modelled.  The API server is one cooperative process: *)
(* a handler runs without being interleaved with another handler, but the *)
(* Celery worker is a separate process, so the worker's steps interleave  *)
(* with a playback request between its read of the recording row          *)
(* (recordings.py:261) and the rest of the handler.                       *)
(*                                                                         *)
(* Whether the datastore and the broker answer is an input of each step   *)
(* that uses them (db_ok, broker_ok): an outage may begin or end between  *)
(* any two steps.                                                          *)
(*                                                                         *)
(* The datastore is taken as the source uses it: a query returns the row  *)
(* as committed, and a commit stores the map assigned to                  *)
(* recording_metadata.                                                    *)
(*                                                                         *)
(* The runner reads db_recording.file_path / db_recording.s3_path as      *)
(* written in process_recording_task; an attribute error on that read is  *)
(* one instance of the "unexpected exception" outcome of task_resolve.    *)
(***************************************************************************)
EXTENDS Integers, FiniteSets, Sequences, TLC

\* Number of task ids the broker ever hands out.
MaxTasks == 2

\* celery_app.conf.worker_concurrency (CELERY_CONCURRENCY default).
worker_concurrency == 2

TaskIds == 1..MaxTasks

\* None, as returned by get_active_task_for_recording / check_task_exists.
NoTask == 0

\* The dummy id "local-fallback-<recording_id>-<time>".
FallbackTask == -1

VARIABLES
    rec,        \* the recording row's immutable fields: environment, s3_path
    recExists,  \* the recording row is still in the datastore
    meta,       \* Recording.recording_metadata as committed in the datastore
    playlist,   \* /recordings/hls/<id>/playlist.m3u8 exists
    tasks,      \* every process_recording_task message ever created
    reqPc,      \* position of the playback request in flight
    reqMeta,    \* db_recording.recording_metadata as loaded by that request
    resp,       \* the response produced by the last step, if a handler's
    jobEnc,     \* encoder invocations by the tasks submitted since the
                \* recording last had no unfinished task (history variable)
    complete,   \* the playlist on disk was written by an encoder run that
                \* exited with code 0
    run,        \* one execution of each runner on given outcomes of its
                \* collaborators: the outcomes and what each runner left
    hls,        \* one get_hls_file request: the rows it reads, the request
                \* and the answer
    auth,       \* the users table and the get_current_user requests in
                \* flight
    startup     \* wait_for_db: the attempts made and the waits slept

\* The state of the handlers outside the transcoding pipeline.
outside == <<hls, auth, startup>>

vars == <<rec, recExists, meta, playlist, tasks, reqPc, reqMeta, resp,
          jobEnc, complete, run, hls, auth, startup>>

-----------------------------------------------------------------------------
\* Recording metadata

\* recording_metadata None / {} : no key present.
EmptyMeta ==
    [transcoding_status |-> "none", transcoding_error |-> "none",
     hls_path |-> FALSE, processed |-> FALSE, video_info |-> "none",
     can_retry |-> FALSE, transcoding_started_at |-> "none",
     transcoding_completed_at |-> FALSE]

\* update_transcoding_status with line 83 replaced by metadata = {}: the
\* keys already stored are not carried over.
update_transcoding_status_from_empty(m, status, error_message) ==
    [EmptyMeta EXCEPT !.transcoding_status = status,
                      !.transcoding_completed_at = TRUE,
                      !.transcoding_error =
                          IF error_message # "none" THEN error_message
                          ELSE @]

\* update_transcoding_status without lines 89-90: the error message is
\* never stored.
update_transcoding_status_drops_error(m, status, error_message) ==
    [m EXCEPT !.transcoding_status = status,
              !.transcoding_completed_at = TRUE]

\* video_processor.update_transcoding_status, the metadata it commits:
\* status and completion timestamp always, the error only when one is given.
update_transcoding_status(m, status, error_message) ==
    [m EXCEPT !.transcoding_status = status,
              !.transcoding_completed_at = TRUE,
              !.transcoding_error =
                  IF error_message # "none" THEN error_message ELSE @]

\* The keys of a loaded metadata map that the success commit does not
\* overwrite.
Kept(m) ==
    [transcoding_error |-> m.transcoding_error, can_retry |-> m.can_retry,
     transcoding_started_at |-> m.transcoding_started_at]

NoSnap == Kept(EmptyMeta)

\* The success commit without line 295: the probe's result is not stored.
completed_metadata_without_video_info(snap, vi) ==
    [transcoding_status |-> "completed",
     transcoding_error |-> snap.transcoding_error,
     hls_path |-> TRUE, processed |-> TRUE, video_info |-> "none",
     can_retry |-> snap.can_retry,
     transcoding_started_at |-> snap.transcoding_started_at,
     transcoding_completed_at |-> TRUE]

\* process_recording_task, the metadata of the success commit (288-296):
\* the map loaded at 205 updated with the HLS information.
completed_metadata(snap, vi) ==
    [transcoding_status |-> "completed",
     transcoding_error |-> snap.transcoding_error,
     hls_path |-> TRUE, processed |-> TRUE, video_info |-> vi,
     can_retry |-> snap.can_retry,
     transcoding_started_at |-> snap.transcoding_started_at,
     transcoding_completed_at |-> TRUE]

\* stream_recording, the metadata written before submitting (464-468).
in_progress_metadata(m) ==
    [m EXCEPT !.transcoding_status = "in_progress",
              !.transcoding_started_at = "recent"]

\* A timestamp written "now" is older than 10 minutes after enough time.
Aged(ts) == IF ts = "recent" THEN "old" ELSE ts

-----------------------------------------------------------------------------
\* Task tracker

IdleTask ==
    [loc |-> "unused", status |-> "PENDING", pc |-> "-", error |-> "none",
     snap |-> NoSnap, video_info |-> "none"]

InBroker == {t \in TaskIds : tasks[t].loc = "broker"}
Reserved == {t \in TaskIds : tasks[t].loc = "reserved"}
Active   == {t \in TaskIds : tasks[t].loc = "active"}
Unused   == {t \in TaskIds : tasks[t].loc = "unused"}

\* Tasks that have been submitted and have not finished.
Unfinished == InBroker \cup Reserved \cup Active

Min(S) == CHOOSE x \in S : \A y \in S : x <= y

\* get_active_task_for_recording without lines 124-133: reserved tasks are
\* not looked at.
get_active_task_for_recording_active_only(broker_ok) ==
    IF ~broker_ok THEN NoTask
    ELSE IF Active # {} THEN Min(Active)
    ELSE NoTask

\* video_processor.get_active_task_for_recording: the workers' active
\* tasks first, then their reserved tasks; None when inspect() raises.
get_active_task_for_recording(broker_ok) ==
    IF ~broker_ok THEN NoTask
    ELSE IF Active # {} THEN Min(Active)
    ELSE IF Reserved # {} THEN Min(Reserved)
    ELSE NoTask

\* video_processor.get_task_status
get_task_status(t) ==
    [task_id |-> t, status |-> tasks[t].status,
     error |-> IF tasks[t].status = "FAILURE" THEN tasks[t].error ELSE "none"]

\* video_processor.check_task_exists: the id found (its status is read
\* from the result backend by get_task_status), or None.
check_task_exists(broker_ok) == get_active_task_for_recording(broker_ok)

-----------------------------------------------------------------------------
\* Responses

\* A response body: the keys the handlers set.  can_retry is present only
\* where a handler adds it (WithCanRetry), hls_path and video_info only
\* where get_recording_status adds them (WithHlsInfo).
Response(op, status, task_id, error) ==
    [op |-> op, status |-> status, task_id |-> task_id, error |-> error,
     can_retry |-> FALSE, hls_path |-> "absent", video_info |-> "absent"]

\* response["can_retry"] = True
WithCanRetry(response) == [response EXCEPT !.can_retry = TRUE]

\* response["hls_path"] = metadata.get("hls_path") and
\* response["video_info"] = metadata.get("video_info", {})
WithHlsInfo(response, m) ==
    [response EXCEPT
        !.hls_path = IF m.hls_path THEN "path" ELSE "null",
        !.video_info = IF m.video_info = "info" THEN "info" ELSE "empty"]

NoResponse == Response("none", "none", NoTask, "none")

\* raise HTTPException(status_code=...): the request ends with an error
\* status and no body, whichever handler raised it.
HTTPException(status_code) == Response("raise", status_code, NoTask, "none")

-----------------------------------------------------------------------------
\* Paths of local recordings

\* Longest stored file_path, in components.
MaxPathLen == 3

\* Path components: the parent directory, the recordings root, a file name.
Names == {"..", "recordings", "f"}

\* A path: absolute or relative, and its components.
Paths ==
    [abs : BOOLEAN,
     parts : UNION {[1..n -> Names] : n \in 1..MaxPathLen}]

\* RECORDINGS_DIR = "/recordings"
RECORDINGS_DIR == [abs |-> TRUE, parts |-> <<"recordings">>]

\* file_path.startswith('/recordings/')
startswith_recordings(p) ==
    p.abs /\ Len(p.parts) >= 2 /\ p.parts[1] = "recordings"

\* os.path.basename
basename(p) == p.parts[Len(p.parts)]

\* os.path.join(dir, name) for a relative name
join(dir, name) == [abs |-> dir.abs, parts |-> Append(dir.parts, name)]

\* process_recording_task 222-224: the path the runner checks and hands to
\* process_video_for_streaming for a stored file_path.
local_file_path(file_path) ==
    IF startswith_recordings(file_path) THEN file_path
    ELSE join(RECORDINGS_DIR, basename(file_path))

Front(s) == SubSeq(s, 1, Len(s) - 1)

RECURSIVE Normalize(_, _, _)
Normalize(seen, rest, abs) ==
    IF rest = <<>> THEN seen
    ELSE IF Head(rest) # ".."
    THEN Normalize(Append(seen, Head(rest)), Tail(rest), abs)
    ELSE IF seen # <<>> /\ seen[Len(seen)] # ".."
    THEN Normalize(Front(seen), Tail(rest), abs)
    ELSE IF abs THEN Normalize(seen, Tail(rest), abs)
    ELSE Normalize(Append(seen, ".."), Tail(rest), abs)

\* os.path.normpath
normpath(p) == [abs |-> p.abs, parts |-> Normalize(<<>>, p.parts, p.abs)]

\* The path is inside the recordings root after normalization.
InsideRoot(p) ==
    LET n == normpath(p)
    IN  n.abs /\ Len(n.parts) >= 1 /\ n.parts[1] = "recordings"

\* The file system the worker sees: its directories and files, as absolute
\* locations.
Directories == {<<>>, <<"recordings">>}
Files == {<<"f">>, <<"recordings", "f">>}

Missing == <<"?">>

\* The location an absolute path leads to, component by component, or
\* Missing.
RECURSIVE Walk(_, _)
Walk(cur, rest) ==
    IF rest = <<>> THEN cur
    ELSE IF cur \notin Directories THEN Missing
    ELSE IF Head(rest) = ".."
    THEN Walk(IF cur = <<>> THEN cur ELSE Front(cur), Tail(rest))
    ELSE IF Append(cur, Head(rest)) \in Directories \cup Files
    THEN Walk(Append(cur, Head(rest)), Tail(rest))
    ELSE Missing

\* os.path.exists(p) for an absolute p: realpath(p) # Missing.
realpath(p) == Walk(<<>>, p.parts)

-----------------------------------------------------------------------------
\* The two runners as functions of their collaborators' outcomes

\* The metadata a runner may find: none, marked in_progress by the playback
\* request, left by a failed job, left by a completed job.
RunnerMetas ==
    LET marked == in_progress_metadata(EmptyMeta)
    IN  {EmptyMeta, marked,
         update_transcoding_status(marked, "failed", "error_msg"),
         completed_metadata(Kept(marked), "info")}

DefaultPath == [abs |-> TRUE, parts |-> <<"recordings", "f">>]

\* Outcomes of download_from_s3: done; an error before its intermediate
\* temporary file is created (parse_s3_path, get_s3_client); a ClientError
\* of get_object; another error while the body is streamed or moved.
DownloadOutcomes == {"ok", "setup_error", "client_error", "stream_error"}

\* The outcomes of the collaborators in one execution of a runner: the
\* metadata found (m), the recording lookup, the recording's source, the
\* download, the HLS directory and the probe, the encoder, the success
\* commit, the commit of a failure status and the db.refresh that the inline
\* runner issues after its success commit.
LocalOutcomes ==
    [m : RunnerMetas, lookup : {"found"}, environment : {"local"},
     file_path : Paths, s3_path : {FALSE}, download : {"ok"},
     playlist : BOOLEAN, source : {"ok", "unreadable", "no_video"},
     returncode : {0, 1}, wrote : BOOLEAN, commit_ok : BOOLEAN,
     status_ok : BOOLEAN, refresh_ok : BOOLEAN]

RemoteOutcomes ==
    [m : RunnerMetas, lookup : {"found"}, environment : {"remote"},
     file_path : {DefaultPath}, s3_path : BOOLEAN, download : DownloadOutcomes,
     playlist : BOOLEAN, source : {"ok", "unreadable", "no_video"},
     returncode : {0, 1}, wrote : BOOLEAN, commit_ok : BOOLEAN,
     status_ok : BOOLEAN, refresh_ok : BOOLEAN]

LookupOutcomes ==
    [m : RunnerMetas, lookup : {"missing", "raises"}, environment : {"local"},
     file_path : {DefaultPath}, s3_path : {FALSE}, download : {"ok"},
     playlist : {FALSE}, source : {"ok"}, returncode : {0}, wrote : {TRUE},
     commit_ok : {TRUE}, status_ok : BOOLEAN, refresh_ok : {TRUE}]

\* process_video_for_streaming is reached with these outcomes.
ReachesProcessing(o) ==
    /\ o.lookup = "found"
    /\ IF o.environment = "local"
       THEN realpath(local_file_path(o.file_path)) # Missing
       ELSE o.s3_path /\ o.download = "ok"

\* utils/video.process_video_for_streaming on these outcomes: whether it
\* returns the playlist path, and the video_info it returns with it.
process_video_for_streaming(o) ==
    IF o.playlist
    THEN [path |-> TRUE,
          video_info |-> IF o.source = "ok" THEN "info" ELSE "empty"]
    ELSE IF o.source # "ok"
    THEN [path |-> FALSE, video_info |-> "none"]
    ELSE [path |-> o.returncode = 0 /\ o.wrote, video_info |-> "info"]

\* The success commit is reached with these outcomes.
ReachesCommit(o) ==
    ReachesProcessing(o) /\ process_video_for_streaming(o).path

\* An outcome that is not consulted has one value, and a directory is not
\* a readable source.
Consulted(o) ==
    /\ ~ReachesProcessing(o) => (~o.playlist /\ o.source = "ok")
    /\ (o.playlist \/ o.source # "ok" \/ ~ReachesProcessing(o))
          => (o.returncode = 0 /\ o.wrote)
    /\ ~ReachesCommit(o) => o.commit_ok
    /\ ~(ReachesCommit(o) /\ o.commit_ok) => o.refresh_ok
    /\ (o.environment = "remote" /\ ~o.s3_path) => o.download = "ok"
    /\ (o.lookup = "missing") => (o.m = EmptyMeta /\ o.status_ok)
    /\ (o.environment = "local"
          /\ realpath(local_file_path(o.file_path)) \in Directories)
          => o.source = "unreadable"

Outcomes ==
    {o \in LocalOutcomes \cup RemoteOutcomes \cup LookupOutcomes :
        Consulted(o)}

\* utils/s3.download_from_s3(s3_path, local_path) with local_path the
\* caller's scoped temporary file: whether it returns True, and the
\* temporary files on disk when it returns.  Its own temporary file is
\* created with delete=False and is moved onto local_path only at the end.
download_from_s3(outcome) ==
    [ok |-> outcome = "ok",
     files |-> CASE outcome = "ok" -> {"scoped"}
                 [] outcome = "setup_error" -> {}
                 [] outcome = "client_error" -> {"scoped", "intermediate"}
                 [] outcome = "stream_error" -> {"intermediate"}]

\* with tempfile.NamedTemporaryFile(suffix='.mp4') as temp_file: the file
\* is removed when the block is left, on every path.
leave_scope(files) == files \ {"scoped"}

NoPath == [abs |-> FALSE, parts |-> <<>>]

\* What one execution of a runner leaves: the committed metadata, whether
\* it returned the completed result, the local path it checked, the
\* location it handed to process_video_for_streaming, the temporary files
\* still on disk.
Exit(metadata, completed, checked, opened, files) ==
    [meta |-> metadata, completed |-> completed, checked |-> checked,
     opened |-> opened, files |-> files]

TempLocation == <<"tmp">>

\* services/video_processor.process_recording_task 190-330 on these
\* outcomes.
process_recording_task(o) ==
    LET failed == IF o.status_ok
                  THEN update_transcoding_status(o.m, "failed", "error_msg")
                  ELSE o.m
        file_path == local_file_path(o.file_path)
        downloaded == download_from_s3(o.download)
        result == process_video_for_streaming(o)
        finish(checked, opened, files) ==
            IF ~result.path
            THEN Exit(failed, FALSE, checked, opened, files)
            ELSE IF o.commit_ok
            THEN Exit(completed_metadata(Kept(o.m), result.video_info),
                      TRUE, checked, opened, files)
            ELSE Exit(failed, FALSE, checked, opened, files)
    IN  IF o.lookup = "raises"
        THEN Exit(failed, FALSE, NoPath, Missing, {})
        ELSE IF o.lookup = "missing"
        THEN Exit(o.m, FALSE, NoPath, Missing, {})
        ELSE IF o.environment = "local"
        THEN IF realpath(file_path) = Missing
             THEN Exit(failed, FALSE, file_path, Missing, {})
             ELSE finish(file_path, realpath(file_path), {})
        ELSE IF ~o.s3_path
        THEN Exit(failed, FALSE, NoPath, Missing, {})
        ELSE IF ~downloaded.ok
        THEN Exit(failed, FALSE, NoPath, Missing,
                  leave_scope(downloaded.files))
        ELSE finish(NoPath, TempLocation, leave_scope(downloaded.files))

\* routers/recordings.process_recording_background 37-146 on these
\* outcomes.  Its failure writes go through the router's own
\* update_transcoding_status (148-166), which merges the same keys into the
\* row's metadata as it is after the rollback.  The success commit is
\* followed by db.refresh(db_recording) inside the same try (128-134): when
\* the refresh raises, the failure write is made over the metadata just
\* committed.
process_recording_background(o) ==
    LET failed_on(m) == IF o.status_ok
                        THEN update_transcoding_status(m, "failed",
                                                       "error_msg")
                        ELSE m
        failed == failed_on(o.m)
        file_path == local_file_path(o.file_path)
        downloaded == download_from_s3(o.download)
        result == process_video_for_streaming(o)
        committed == completed_metadata(Kept(o.m), result.video_info)
        finish(checked, opened, files) ==
            IF ~result.path
            THEN Exit(failed, FALSE, checked, opened, files)
            ELSE IF ~o.commit_ok
            THEN Exit(failed, FALSE, checked, opened, files)
            ELSE IF o.refresh_ok
            THEN Exit(committed, TRUE, checked, opened, files)
            ELSE Exit(failed_on(committed), FALSE, checked, opened, files)
    IN  IF o.lookup = "raises"
        THEN Exit(failed, FALSE, NoPath, Missing, {})
        ELSE IF o.lookup = "missing"
        THEN Exit(o.m, FALSE, NoPath, Missing, {})
        ELSE IF o.environment = "local"
        THEN IF realpath(file_path) = Missing
             THEN Exit(failed, FALSE, file_path, Missing, {})
             ELSE finish(file_path, realpath(file_path), {})
        ELSE IF ~o.s3_path
        THEN Exit(failed, FALSE, NoPath, Missing, {})
        ELSE IF ~downloaded.ok
        THEN Exit(failed, FALSE, NoPath, Missing,
                  leave_scope(downloaded.files))
        ELSE finish(NoPath, TempLocation, leave_scope(downloaded.files))

\* A runner that has not been executed.
NotRun == Exit(EmptyMeta, FALSE, NoPath, Missing, {"not run"})

\* No execution is being followed: the pipeline model leaves run alone.
NoRun == [outcomes |-> "none", task |-> "none", background |-> "none"]

\* No get_hls_file request, no get_current_user request and no wait_for_db
\* call is being followed.
NoHls == [request |-> "none"]
NoAuth == [users |-> "none"]
NoStartup == [attempt |-> "none"]

-----------------------------------------------------------------------------
TypeOK ==
    /\ rec \in [environment : {"local", "remote"}, s3_path : BOOLEAN]
    /\ recExists \in BOOLEAN
    /\ playlist \in BOOLEAN
    /\ reqPc \in {"idle", "loaded"}
    /\ jobEnc \in 0..MaxTasks
    /\ complete \in BOOLEAN
    /\ \A t \in TaskIds :
          /\ tasks[t].loc \in {"unused", "broker", "reserved", "active", "done"}
          /\ tasks[t].status \in {"PENDING", "PROGRESS", "FAILURE", "SUCCESS"}
    /\ resp.task_id \in TaskIds \cup {NoTask, FallbackTask}

Init ==
    /\ rec \in {[environment |-> "local", s3_path |-> FALSE],
                [environment |-> "remote", s3_path |-> TRUE],
                [environment |-> "remote", s3_path |-> FALSE]}
    /\ recExists = TRUE
    /\ meta = EmptyMeta
    /\ playlist = FALSE
    /\ tasks = [t \in TaskIds |-> IdleTask]
    /\ reqPc = "idle"
    /\ reqMeta = EmptyMeta
    /\ resp = NoResponse
    /\ jobEnc = 0
    /\ complete = FALSE
    /\ run = NoRun
    /\ hls = NoHls /\ auth = NoAuth /\ startup = NoStartup

-----------------------------------------------------------------------------
\* Celery worker: prefetch and start

\* The worker takes the oldest message off the video_processing queue; from
\* then on inspect().reserved() reports it.
worker_reserve(t) ==
    /\ InBroker # {} /\ t = Min(InBroker)
    /\ tasks' = [tasks EXCEPT ![t].loc = "reserved"]
    /\ resp' = NoResponse
    /\ UNCHANGED <<outside, run, complete, rec, recExists, meta, playlist, reqPc,
                   reqMeta,
                   jobEnc>>

\* A pool process starts the oldest reserved task, at most
\* worker_concurrency of them running at once.
worker_start(t) ==
    /\ Reserved # {} /\ t = Min(Reserved)
    /\ Cardinality(Active) < worker_concurrency
    /\ tasks' = [tasks EXCEPT ![t].loc = "active", ![t].pc = "lookup"]
    /\ resp' = NoResponse
    /\ UNCHANGED <<outside, run, complete, rec, recExists, meta, playlist, reqPc,
                   reqMeta,
                   jobEnc>>

-----------------------------------------------------------------------------
\* process_recording_task, step by step

Running(t, pc) == tasks[t].loc = "active" /\ tasks[t].pc = pc

\* A failure exit up to its status write: update_transcoding_status(db,
\* recording_id, "failed", error_msg), which swallows a datastore error and
\* writes nothing when the row is gone; self.update_state(FAILURE) follows.
task_fail(t, error_msg) ==
    /\ \E db_ok \in BOOLEAN :
          meta' = IF db_ok /\ recExists
                  THEN update_transcoding_status(meta, "failed", error_msg)
                  ELSE meta
    /\ tasks' = [tasks EXCEPT ![t].pc = "fail_state", ![t].error = error_msg,
                              ![t].snap = NoSnap, ![t].video_info = "none"]

\* 202-217: load the row, report PROGRESS.  A datastore error raised by
\* the query ends in the handler at 319.
task_lookup(t) ==
    /\ Running(t, "lookup")
    /\ \E db_ok \in BOOLEAN :
          IF ~db_ok
          THEN task_fail(t, "error_msg")
          ELSE IF ~recExists
          THEN /\ tasks' = [tasks EXCEPT ![t].status = "FAILURE",
                                         ![t].error = "not_found",
                                         ![t].pc = "ret"]
               /\ meta' = meta
          ELSE /\ tasks' = [tasks EXCEPT ![t].status = "PROGRESS",
                                         ![t].snap = Kept(meta),
                                         ![t].pc = "resolve"]
               /\ meta' = meta
    /\ resp' = NoResponse
    /\ UNCHANGED <<outside, run, complete, rec, recExists, playlist, reqPc, reqMeta,
                   jobEnc>>

\* 219-257: choose the source by environment; any other exception raised
\* here ends in the handler at 319.
task_resolve(t) ==
    /\ Running(t, "resolve")
    /\ \/ /\ rec.environment = "local"
          /\ \E exists \in BOOLEAN :
                IF exists
                THEN /\ tasks' = [tasks EXCEPT ![t].pc = "process"]
                     /\ meta' = meta
                ELSE task_fail(t, "error_msg")
       \/ /\ rec.environment # "local"
          /\ IF rec.s3_path
             THEN /\ tasks' = [tasks EXCEPT ![t].pc = "download"]
                  /\ meta' = meta
             ELSE task_fail(t, "error_msg")
       \/ task_fail(t, "error_msg")
    /\ resp' = NoResponse
    /\ UNCHANGED <<outside, run, complete, rec, recExists, playlist, reqPc, reqMeta,
                   jobEnc>>

\* 258-274: download_from_s3 returns True, returns False or raises.
task_download(t) ==
    /\ Running(t, "download")
    /\ \E outcome \in {"ok", "false", "raises"} :
          IF outcome = "ok"
          THEN /\ tasks' = [tasks EXCEPT ![t].pc = "process"]
               /\ meta' = meta
          ELSE task_fail(t, "error_msg")
    /\ resp' = NoResponse
    /\ UNCHANGED <<outside, run, complete, rec, recExists, playlist, reqPc, reqMeta,
                   jobEnc>>

\* process_video_for_streaming without lines 161-165: an existing playlist
\* is not looked for.
task_process_without_reuse(t) ==
    /\ Running(t, "process")
    /\ \E source \in {"ok", "unreadable", "no_video"} :
          IF source = "ok"
          THEN /\ tasks' = [tasks EXCEPT ![t].video_info = "info",
                                         ![t].pc = "encode"]
               /\ meta' = meta
               /\ jobEnc' = jobEnc + 1
          ELSE /\ task_fail(t, "error_msg")
               /\ jobEnc' = jobEnc
    /\ resp' = NoResponse
    /\ UNCHANGED <<outside, run, complete, rec, recExists, playlist, reqPc, reqMeta>>

\* utils/video.process_video_for_streaming up to the encoder's start
\* (160-181 and create_hls_playlist 29-71): an existing playlist is returned
\* with whatever get_video_info yields; otherwise the source must be readable
\* and probe to a video stream before ffmpeg is started.
task_process(t) ==
    /\ Running(t, "process")
    /\ IF playlist
       THEN /\ \E vi \in {"info", "empty"} :
                  tasks' = [tasks EXCEPT ![t].video_info = vi,
                                         ![t].pc = "commit"]
            /\ meta' = meta
            /\ jobEnc' = jobEnc
       ELSE \E source \in {"ok", "unreadable", "no_video"} :
               IF source = "ok"
               THEN /\ tasks' = [tasks EXCEPT ![t].video_info = "info",
                                              ![t].pc = "encode"]
                    /\ meta' = meta
                    /\ jobEnc' = jobEnc + 1
               ELSE /\ task_fail(t, "error_msg")
                    /\ jobEnc' = jobEnc
    /\ resp' = NoResponse
    /\ UNCHANGED <<outside, run, complete, rec, recExists, playlist, reqPc, reqMeta>>

\* create_hls_playlist without lines 78-80: the exit code is not looked at.
task_encode_ignores_exit_code(t, returncode, wrote) ==
    /\ Running(t, "encode")
    /\ playlist' = (playlist \/ wrote)
    /\ IF playlist'
       THEN /\ tasks' = [tasks EXCEPT ![t].pc = "commit"]
            /\ meta' = meta
       ELSE task_fail(t, "error_msg")
    /\ complete' = IF wrote THEN returncode = 0 ELSE complete
    /\ resp' = NoResponse
    /\ UNCHANGED <<outside, run, rec, recExists, reqPc, reqMeta, jobEnc>>

\* create_hls_playlist 71-90: ffmpeg ends with exit code returncode, having
\* written a playlist or not (wrote); the path is returned only for exit
\* code 0 with the playlist present, every other outcome raises.
task_encode(t, returncode, wrote) ==
    /\ Running(t, "encode")
    /\ playlist' = (playlist \/ wrote)
    /\ IF returncode = 0 /\ playlist'
       THEN /\ tasks' = [tasks EXCEPT ![t].pc = "commit"]
            /\ meta' = meta
       ELSE task_fail(t, "error_msg")
    /\ complete' = IF wrote THEN returncode = 0 ELSE complete
    /\ resp' = NoResponse
    /\ UNCHANGED <<outside, run, rec, recExists, reqPc, reqMeta, jobEnc>>

\* The success commit as an insert-or-update: a row deleted since the
\* lookup does not make it fail.
task_commit_ignores_missing_row(t) ==
    /\ Running(t, "commit")
    /\ \E db_ok \in BOOLEAN :
          IF db_ok
          THEN /\ meta' = completed_metadata(tasks[t].snap,
                                             tasks[t].video_info)
               /\ tasks' = [tasks EXCEPT ![t].pc = "ret", ![t].snap = NoSnap,
                                         ![t].video_info = "none"]
          ELSE task_fail(t, "error_msg")
    /\ resp' = NoResponse
    /\ UNCHANGED <<outside, run, complete, rec, recExists, playlist, reqPc, reqMeta,
                   jobEnc>>

\* 288-317: merge the HLS information into the metadata loaded at 205 and
\* commit; a failing commit (datastore error, row gone) is rolled back and
\* reported as a failure.
task_commit(t) ==
    /\ Running(t, "commit")
    /\ \E db_ok \in BOOLEAN :
          IF db_ok /\ recExists
          THEN /\ meta' = completed_metadata(tasks[t].snap,
                                             tasks[t].video_info)
               /\ tasks' = [tasks EXCEPT ![t].pc = "ret", ![t].snap = NoSnap,
                                         ![t].video_info = "none"]
          ELSE task_fail(t, "error_msg")
    /\ resp' = NoResponse
    /\ UNCHANGED <<outside, run, complete, rec, recExists, playlist, reqPc, reqMeta,
                   jobEnc>>

\* self.update_state(state="FAILURE", meta={"error": error_msg}) of every
\* failure exit.
task_fail_state(t) ==
    /\ Running(t, "fail_state")
    /\ tasks' = [tasks EXCEPT ![t].status = "FAILURE", ![t].pc = "ret"]
    /\ resp' = NoResponse
    /\ UNCHANGED <<outside, run, complete, rec, recExists, meta, playlist, reqPc,
                   reqMeta,
                   jobEnc>>

\* The task function returns (a dict on success, None on every failure
\* exit): the worker stores the return value as the task's result, state
\* SUCCESS, and the task leaves the worker.
task_return(t) ==
    /\ Running(t, "ret")
    /\ tasks' = [tasks EXCEPT ![t].status = "SUCCESS", ![t].loc = "done",
                              ![t].pc = "-", ![t].error = "none"]
    /\ jobEnc' = IF Unfinished = {t} THEN 0 ELSE jobEnc
    /\ resp' = NoResponse
    /\ UNCHANGED <<outside, run, complete, rec, recExists, meta, playlist, reqPc,
                   reqMeta>>

\* max_retries of the task decorator (191-192).
max_retries == 3

\* The number of times the worker has executed task t.  autoretry_for
\* re-executes a task whose function raises; every exit of
\* process_recording_task is a return (209, 231, 243, 252, 268, 274, 286,
\* 305, 317, 328), so a task that has been started was executed once.
Executions(t) == IF tasks[t].loc \in {"active", "done"} THEN 1 ELSE 0

\* The task is at its return statement after a failure exit / after the
\* success commit.
ReturnsFailed(t) == Running(t, "ret") /\ tasks[t].status = "FAILURE"
ReturnsCompleted(t) == Running(t, "ret") /\ tasks[t].status = "PROGRESS"

-----------------------------------------------------------------------------
\* API server: playback request

\* recordings.py 323-325 / 1175-1177: the metadata names an HLS directory
\* and its playlist.m3u8 exists.
hls_ready(m) == m.hls_path /\ playlist

\* The id process_recording_task.delay() gives the next message.
NextTaskId == IF Unused = {} THEN NoTask ELSE Min(Unused)

\* video_processor.submit_processing_job: the id it returns, the task it
\* enqueues (if any) and whether it took the broker-failure fallback.
submit_processing_job(broker_ok) ==
    LET existing_task == check_task_exists(broker_ok) IN
    IF existing_task # NoTask
    THEN [task_id |-> existing_task, enqueued |-> NoTask, fallback |-> FALSE]
    ELSE IF broker_ok
    THEN [task_id |-> NextTaskId, enqueued |-> NextTaskId, fallback |-> FALSE]
    ELSE [task_id |-> FallbackTask, enqueued |-> NoTask, fallback |-> TRUE]

\* stream_recording 322-461, the branch the request takes on the metadata m
\* it loaded.  started_at is bound only for a PENDING task whose metadata has
\* transcoding_started_at; the comparison at 371 is evaluated for every
\* existing task, so an unbound started_at raises and the handler at 458
\* continues to the submission.
stream_decision(m, broker_ok) ==
    IF hls_ready(m) /\ (m.transcoding_status = "completed" \/ m.processed)
    THEN "ready"
    ELSE IF hls_ready(m) /\ m.transcoding_status = "failed"
    THEN "failed"
    ELSE IF check_task_exists(broker_ok) = NoTask
    THEN "start"
    ELSE LET existing_task == get_task_status(check_task_exists(broker_ok))
             bound == /\ existing_task.status = "PENDING"
                      /\ m.transcoding_started_at # "none"
         IN  IF ~bound THEN "start"
             ELSE IF m.transcoding_started_at # "old" THEN "processing"
             ELSE IF existing_task.status \in {"STARTED", "PROGRESS"}
             THEN "processing"
             ELSE "start"

\* stream_recording 261-264: load the recording row.
stream_begin ==
    /\ reqPc = "idle"
    /\ \E db_ok \in BOOLEAN :
          IF ~db_ok
          THEN /\ resp' = HTTPException("http_500")
               /\ UNCHANGED <<reqPc, reqMeta>>
          ELSE IF ~recExists
          THEN /\ resp' = HTTPException("http_404")
               /\ UNCHANGED <<reqPc, reqMeta>>
          ELSE /\ reqPc' = "loaded"
               /\ reqMeta' = meta
               /\ resp' = NoResponse
    /\ UNCHANGED <<outside, run, complete, rec, recExists, meta, playlist, tasks,
                   jobEnc>>

\* stream_recording 322-531 with the datastore and the broker answering as
\* given: answer from the loaded metadata, or mark the recording
\* in_progress, commit and call submit_processing_job.
stream_finish(db_ok, broker_ok) ==
    /\ reqPc = "loaded"
    /\ reqPc' = "idle"
    /\ reqMeta' = EmptyMeta
    /\ LET decision == stream_decision(reqMeta, broker_ok)
           job == submit_processing_job(broker_ok)
           marked == in_progress_metadata(reqMeta)
       IN
       IF decision = "ready"
       THEN /\ resp' = Response("stream", "ready", NoTask, "none")
            /\ UNCHANGED <<meta, tasks, jobEnc>>
       ELSE IF decision = "failed"
       THEN /\ resp' = WithCanRetry(
                         Response("stream", "failed", NoTask,
                                  IF reqMeta.transcoding_error # "none"
                                  THEN reqMeta.transcoding_error
                                  ELSE "unknown"))
            /\ UNCHANGED <<meta, tasks, jobEnc>>
       ELSE IF decision = "processing"
       THEN /\ resp' = Response("stream", "processing",
                                check_task_exists(broker_ok), "none")
            /\ UNCHANGED <<meta, tasks, jobEnc>>
       ELSE IF ~(db_ok /\ recExists)
       THEN \* the commit at 472 raises: HTTP 500
            /\ resp' = HTTPException("http_500")
            /\ UNCHANGED <<meta, tasks, jobEnc>>
       ELSE IF job.fallback
       THEN /\ meta' = update_transcoding_status(marked, "failed", "error_msg")
            /\ resp' = Response("stream", "delayed_processing", job.task_id,
                                "none")
            /\ UNCHANGED <<tasks, jobEnc>>
       ELSE IF job.enqueued = NoTask
       THEN /\ job.task_id # NoTask
            /\ meta' = marked
            /\ resp' = Response("stream", "processing", job.task_id, "none")
            /\ UNCHANGED <<tasks, jobEnc>>
       ELSE /\ meta' = marked
            /\ tasks' = [tasks EXCEPT ![job.enqueued].loc = "broker"]
            /\ jobEnc' = jobEnc
            /\ resp' = Response("stream", "processing", job.task_id, "none")
    /\ UNCHANGED <<outside, run, complete, rec, recExists, playlist>>

-----------------------------------------------------------------------------
\* API server: status polls

\* get_recording_processing_status 1198-1205
status_map(celery_status) ==
    CASE celery_status = "PENDING" -> "queued"
      [] celery_status = "STARTED" -> "processing"
      [] celery_status = "PROGRESS" -> "processing"
      [] celery_status = "SUCCESS" -> "completed"
      [] celery_status = "FAILURE" -> "failed"
      [] celery_status = "REVOKED" -> "cancelled"
      [] OTHER -> "unknown"

\* get_recording_processing_status 1174-1247, the response body.
processing_status_response(broker_ok) ==
    IF hls_ready(meta) /\ (meta.transcoding_status = "completed"
                           \/ meta.processed)
    THEN Response("processing_status", "ready", NoTask, "none")
    ELSE IF check_task_exists(broker_ok) # NoTask
    THEN LET existing_task == get_task_status(check_task_exists(broker_ok))
             client_status == status_map(existing_task.status)
         IN  Response("processing_status", client_status,
                      existing_task.task_id,
                      IF client_status = "failed" THEN existing_task.error
                      ELSE "none")
    ELSE IF meta.transcoding_status = "failed"
            /\ meta.transcoding_error # "none"
    THEN WithCanRetry(Response("processing_status", "failed", NoTask,
                               meta.transcoding_error))
    ELSE IF meta.transcoding_status # "none"
    THEN Response("processing_status", meta.transcoding_status, NoTask,
                  "none")
    ELSE Response("processing_status", "not_processed", NoTask, "none")

\* get_recording_status with the legacy flag looked at first: a metadata
\* with processed = true is answered completed whatever its
\* transcoding_status.
status_response_flag_first ==
    IF meta.processed
    THEN WithHlsInfo(Response("status", "completed", NoTask, "none"), meta)
    ELSE IF meta.transcoding_status # "none"
    THEN Response("status", meta.transcoding_status, NoTask,
                  IF meta.transcoding_status = "failed"
                  THEN meta.transcoding_error ELSE "none")
    ELSE Response("status", "unknown", NoTask, "none")

\* get_recording_status 1077-1123, the response body: the status string
\* when the key is present (with the error when failed, with the HLS
\* information when completed), else completed for the legacy processed
\* flag, else unknown.
status_response ==
    IF meta.transcoding_status # "none"
    THEN LET response == Response("status", meta.transcoding_status, NoTask,
                                  IF meta.transcoding_status = "failed"
                                  THEN meta.transcoding_error ELSE "none")
         IN  IF meta.transcoding_status = "completed"
             THEN WithHlsInfo(response, meta)
             ELSE response
    ELSE IF meta.processed
    THEN WithHlsInfo(Response("status", "completed", NoTask, "none"), meta)
    ELSE Response("status", "unknown", NoTask, "none")

\* A poll that reconciles the metadata the way stream_recording 430-448
\* is written to: a failed answer is stored with can_retry.
get_recording_processing_status_reconciles ==
    /\ reqPc = "idle"
    /\ \E db_ok \in BOOLEAN, broker_ok \in BOOLEAN :
          /\ resp' = IF ~db_ok
                     THEN HTTPException("http_500")
                     ELSE IF ~recExists
                     THEN HTTPException("http_404")
                     ELSE processing_status_response(broker_ok)
          /\ meta' = IF resp'.status = "failed"
                     THEN [meta EXCEPT !.can_retry = TRUE]
                     ELSE meta
    /\ UNCHANGED <<outside, run, complete, rec, recExists, playlist, tasks, reqPc,
                   reqMeta,
                   jobEnc>>

\* GET /recordings/{id}/processing-status
get_recording_processing_status ==
    /\ reqPc = "idle"
    /\ \E db_ok \in BOOLEAN, broker_ok \in BOOLEAN :
          resp' = IF ~db_ok
                  THEN HTTPException("http_500")
                  ELSE IF ~recExists
                  THEN HTTPException("http_404")
                  ELSE processing_status_response(broker_ok)
    /\ UNCHANGED <<outside, run, complete, rec, recExists, meta, playlist, tasks, reqPc,
                   reqMeta, jobEnc>>

\* GET /recordings/{id}/status
get_recording_status ==
    /\ reqPc = "idle"
    /\ \E db_ok \in BOOLEAN :
          resp' = IF ~db_ok
                  THEN HTTPException("http_500")
                  ELSE IF ~recExists
                  THEN HTTPException("http_404")
                  ELSE status_response
    /\ UNCHANGED <<outside, run, complete, rec, recExists, meta, playlist, tasks, reqPc,
                   reqMeta, jobEnc>>

-----------------------------------------------------------------------------
\* Environment

\* More than ten minutes pass: every timestamp written so far is old.
tick ==
    /\ meta.transcoding_started_at = "recent"
    /\ meta' = [meta EXCEPT !.transcoding_started_at = Aged(@)]
    /\ reqMeta' = [reqMeta EXCEPT !.transcoding_started_at = Aged(@)]
    /\ tasks' = [t \in TaskIds |->
                    [tasks[t] EXCEPT !.snap.transcoding_started_at = Aged(@)]]
    /\ resp' = NoResponse
    /\ UNCHANGED <<outside, run, complete, rec, recExists, playlist, reqPc, jobEnc>>

\* The HLS output is removed from disk (clean-up, reprocessing).
remove_playlist ==
    /\ playlist /\ playlist' = FALSE
    /\ complete' = FALSE
    /\ resp' = NoResponse
    /\ UNCHANGED <<outside, run, rec, recExists, meta, tasks, reqPc, reqMeta, jobEnc>>

\* recordings.py delete_recording 217-236
delete_recording ==
    /\ reqPc = "idle"
    /\ recExists
    /\ recExists' = FALSE
    /\ meta' = EmptyMeta
    /\ resp' = NoResponse
    /\ UNCHANGED <<outside, run, complete, rec, playlist, tasks, reqPc, reqMeta,
                   jobEnc>>

-----------------------------------------------------------------------------
Next ==
    \/ stream_begin
    \/ \E db_ok \in BOOLEAN, broker_ok \in BOOLEAN :
          stream_finish(db_ok, broker_ok)
    \/ get_recording_processing_status
    \/ get_recording_status
    \/ \E t \in TaskIds : worker_reserve(t)
    \/ \E t \in TaskIds : worker_start(t)
    \/ \E t \in TaskIds : task_lookup(t)
    \/ \E t \in TaskIds : task_resolve(t)
    \/ \E t \in TaskIds : task_download(t)
    \/ \E t \in TaskIds : task_process(t)
    \/ \E t \in TaskIds, returncode \in {0, 1}, wrote \in BOOLEAN :
          task_encode(t, returncode, wrote)
    \/ \E t \in TaskIds : task_commit(t)
    \/ \E t \in TaskIds : task_fail_state(t)
    \/ \E t \in TaskIds : task_return(t)
    \/ tick
    \/ remove_playlist
    \/ delete_recording

Spec == Init /\ [][Next]_vars

-----------------------------------------------------------------------------
\* The status polls on any stored metadata

\* The metadata a recording may carry, written by this or an earlier
\* version of the server: every combination of the keys, among them the
\* legacy processed flag without a transcoding_status.
StoredMetas ==
    [transcoding_status : {"none", "in_progress", "completed", "failed"},
     transcoding_error : {"none", "error_msg"},
     hls_path : BOOLEAN, processed : BOOLEAN,
     video_info : {"none", "info", "empty"},
     can_retry : {FALSE}, transcoding_started_at : {"none", "recent"},
     transcoding_completed_at : BOOLEAN]

InitPolls ==
    /\ rec = [environment |-> "local", s3_path |-> FALSE]
    /\ recExists = TRUE
    /\ meta \in StoredMetas
    /\ playlist \in BOOLEAN
    /\ tasks = [t \in TaskIds |-> IdleTask]
    /\ reqPc = "idle"
    /\ reqMeta = EmptyMeta
    /\ resp = NoResponse
    /\ jobEnc = 0
    /\ complete = FALSE
    /\ run = NoRun
    /\ hls = NoHls /\ auth = NoAuth /\ startup = NoStartup

NextPolls ==
    \/ get_recording_status
    \/ get_recording_processing_status

SpecPolls == InitPolls /\ [][NextPolls]_vars

-----------------------------------------------------------------------------
\* The hard time limit

\* celery_app.conf.task_time_limit (video_processor.py 50): the worker kills
\* the pool process that executes t.  No line of process_recording_task runs
\* any more; the worker stores FAILURE (TimeLimitExceeded) as the task's
\* result, and an encoder run that was under way may have left a partial
\* playlist.
task_time_limit(t) ==
    /\ tasks[t].loc = "active"
    /\ tasks' = [tasks EXCEPT ![t] = [IdleTask EXCEPT
                                         !.loc = "done",
                                         !.status = "FAILURE",
                                         !.error = "TimeLimitExceeded"]]
    /\ \E partial \in BOOLEAN :
          /\ partial => tasks[t].pc = "encode"
          /\ playlist' = (playlist \/ partial)
          /\ complete' = (complete /\ ~partial)
    /\ jobEnc' = IF Unfinished = {t} THEN 0 ELSE jobEnc
    /\ resp' = NoResponse
    /\ UNCHANGED <<outside, run, rec, recExists, meta, reqPc, reqMeta>>

NextTimeLimit ==
    \/ Next
    \/ \E t \in TaskIds : task_time_limit(t)

SpecTimeLimit == Init /\ [][NextTimeLimit]_vars

-----------------------------------------------------------------------------
\* One execution of each runner on the same outcomes

InitRunners ==
    /\ run \in [outcomes : Outcomes, task : {NotRun}, background : {NotRun}]
    /\ rec = [environment |-> run.outcomes.environment,
              s3_path |-> run.outcomes.s3_path]
    /\ recExists = (run.outcomes.lookup # "missing")
    /\ meta = run.outcomes.m
    /\ playlist = run.outcomes.playlist
    /\ tasks = [t \in TaskIds |-> IdleTask]
    /\ reqPc = "idle"
    /\ reqMeta = EmptyMeta
    /\ resp = NoResponse
    /\ jobEnc = 0
    /\ complete = FALSE
    /\ hls = NoHls /\ auth = NoAuth /\ startup = NoStartup

\* The queue runner is executed on the outcomes.
run_process_recording_task ==
    /\ run.task = NotRun
    /\ run' = [run EXCEPT !.task = process_recording_task(run.outcomes)]
    /\ UNCHANGED <<rec, recExists, meta, playlist, tasks, reqPc, reqMeta,
                   resp, jobEnc, complete, outside>>

\* The inline runner is executed on the outcomes.
run_process_recording_background ==
    /\ run.background = NotRun
    /\ run' = [run EXCEPT
                  !.background = process_recording_background(run.outcomes)]
    /\ UNCHANGED <<rec, recExists, meta, playlist, tasks, reqPc, reqMeta,
                   resp, jobEnc, complete, outside>>

NextRunners ==
    \/ run_process_recording_task
    \/ run_process_recording_background

SpecRunners == InitRunners /\ [][NextRunners]_vars

-----------------------------------------------------------------------------
\* Serving the files of an HLS rendition

\* The users' ids. In a token payload 0 stands for a user_id that is absent,
\* None or 0: the handler's "if not user_id".
Users == {1, 2}

\* The stream keys of devices, recordings and metadata.
StreamKeys == {"s1", "s2"}

\* The token query parameter: absent; present but rejected by
\* verify_temporary_token (forged, expired, another algorithm); or signed
\* with the temporary secret. user_id is what the payload says.
Tokens ==
    {[form |-> "absent", user_id |-> 0]}
        \cup [form : {"rejected", "signed"}, user_id : {0} \cup Users]

\* verify_temporary_token(token): the payload's user_id; ok is FALSE where
\* the function raises.
verify_temporary_token(token) ==
    [ok |-> token.form = "signed", user_id |-> token.user_id]

\* The recording_id path parameter: the stored recording's id, the same
\* number written differently, the id of no recording, and no number.
RecordingIdParams == {"1", "01", "2", "x"}

\* int(recording_id); -1 where it raises ValueError.
int(recording_id) ==
    CASE recording_id \in {"1", "01"} -> 1
      [] recording_id = "2" -> 2
      [] OTHER -> -1

\* The stored recording: id 1, owned by user 1, recorded from stream s1.
StoredRecordingId == 1
Owner == 1
StreamName == "s1"

\* The rows a request reads besides the recording's metadata: stream_id
\* in the metadata, and for each stream key the device that has it
\* (stream_key is unique) with its users and its is_active flag; a key no
\* device has is a device without users.
HlsRows ==
    [stream_id : {"absent"} \cup StreamKeys,
     devices : [StreamKeys -> [users : SUBSET Users, is_active : BOOLEAN]]]

\* A request: its parameters and the outcomes of what it consults (the
\* datastore answers, the segment file is on disk).
HlsRequests ==
    [token : Tokens, recording_id : RecordingIdParams,
     file_name : {"playlist.m3u8"}, db_ok : BOOLEAN, segment : {FALSE}]
        \cup [token : {[form |-> "absent", user_id |-> 0]},
              recording_id : RecordingIdParams,
              file_name : {"segment_000.ts"}, db_ok : {TRUE},
              segment : BOOLEAN]

\* An answer: the status code and the file whose content it carries.
HlsResponse(status_code, file) == [status_code |-> status_code, file |-> file]

\* The Device query without its is_active filter.
user_devices_inactive_too(rows, user_id, stream_key) ==
    user_id \in rows.devices[stream_key].users

\* The Device query of lines 605-609 and 613-617: an active device of the
\* user with this stream key.
user_devices(rows, user_id, stream_key) ==
    /\ user_id \in rows.devices[stream_key].users
    /\ rows.devices[stream_key].is_active

\* Lines 602-621: the user owns the recording, or has a device for its
\* stream_name, or for the stream_id of its metadata.
has_access(rows, user_id) ==
    \/ Owner = user_id
    \/ user_devices(rows, user_id, StreamName)
    \/ /\ rows.stream_id # "absent"
       /\ user_devices(rows, user_id, rows.stream_id)

\* Lines 624-626: the metadata records completed processing.
processing_complete(m) ==
    m.transcoding_status = "completed" \/ m.processed

\* Lines 636-661: the file at HLS_DIR/<recording_id>/<file_name>, which
\* exists only in the directory named by str(id) of the recording.
FileResponse(q, on_disk) ==
    IF q.recording_id = "1"
          /\ (IF q.file_name = "playlist.m3u8" THEN on_disk ELSE q.segment)
    THEN HlsResponse(200, q.file_name)
    ELSE HlsResponse(404, "none")

\* get_hls_file (561-668) on the rows, the metadata m, the playlist being
\* on disk, and the request q.
get_hls_file(rows, m, on_disk, q) ==
    LET payload == verify_temporary_token(q.token) IN
    IF q.file_name # "playlist.m3u8" THEN FileResponse(q, on_disk)
    ELSE IF q.token.form = "absent" THEN HlsResponse(401, "none")
    ELSE IF ~payload.ok \/ payload.user_id = 0 THEN HlsResponse(401, "none")
    ELSE IF int(q.recording_id) = -1 \/ ~q.db_ok
         THEN HlsResponse(500, "none")
    ELSE IF int(q.recording_id) # StoredRecordingId
         THEN HlsResponse(404, "none")
    ELSE IF ~has_access(rows, payload.user_id) THEN HlsResponse(403, "none")
    ELSE IF ~processing_complete(m) THEN HlsResponse(400, "none")
    ELSE FileResponse(q, on_disk)

NoHlsRequest ==
    [token |-> [form |-> "absent", user_id |-> 0], recording_id |-> "-",
     file_name |-> "-", db_ok |-> TRUE, segment |-> FALSE]

InitHls ==
    /\ rec = [environment |-> "local", s3_path |-> FALSE]
    /\ recExists = TRUE
    /\ \E s \in {"none", "in_progress", "completed", "failed"},
          p \in BOOLEAN :
          meta = [EmptyMeta EXCEPT !.transcoding_status = s, !.processed = p]
    /\ playlist \in BOOLEAN
    /\ tasks = [t \in TaskIds |-> IdleTask]
    /\ reqPc = "idle"
    /\ reqMeta = EmptyMeta
    /\ resp = NoResponse
    /\ jobEnc = 0
    /\ complete = FALSE
    /\ run = NoRun
    /\ hls \in [rows : HlsRows, request : {NoHlsRequest},
                response : {HlsResponse(0, "none")}]
    /\ auth = NoAuth /\ startup = NoStartup

\* One request arrives and is answered.
hls_request ==
    /\ hls.request = NoHlsRequest
    /\ \E q \in HlsRequests :
          hls' = [hls EXCEPT
                     !.request = q,
                     !.response = get_hls_file(hls.rows, meta, playlist, q)]
    /\ UNCHANGED <<rec, recExists, meta, playlist, tasks, reqPc, reqMeta,
                   resp, jobEnc, complete, run, auth, startup>>

NextHls == hls_request

SpecHls == InitHls /\ [][NextHls]_vars

-----------------------------------------------------------------------------
\* Concurrent first requests of one user: get_current_user

\* The requests of the user that run concurrently.
MaxRequests == 2
Requests == 1 .. MaxRequests

\* The user's auth0_id, and the email a request has for them: the one the
\* token or the Auth0 API gives, or the auth0_id itself where that call
\* failed (113-124).
Auth0Id == "auth0|a"
Emails == {"e", Auth0Id}

\* max_retries of the creation loop (line 142).
create_max_retries == 3

NoUser == [auth0_id |-> "none", email |-> "none"]

\* The rows of users: auth0_id and email are both unique columns.
by_auth0_id(users) == {u \in users : u.auth0_id = Auth0Id}
by_email(users, email) == {u \in users : u.email = email}

\* Lines 159-172: the attempt failed; roll back, count it, and give up with
\* HTTP 500 at the third failure, else sleep and try again.
attempt_failed(q, conflict) ==
    [q EXCEPT !.retry_count = @ + 1,
              !.conflicts = IF conflict THEN @ + 1 ELSE @,
              !.pc = IF q.retry_count + 1 >= create_max_retries
                     THEN "gave_up" ELSE "check"]

\* Line 134: the query by auth0_id; a datastore error propagates.
auth_lookup(r, db_ok) ==
    LET q == auth.reqs[r] IN
    /\ q.pc = "lookup"
    /\ auth' = [auth EXCEPT !.reqs[r] =
          IF ~db_ok THEN [q EXCEPT !.pc = "raised"]
          ELSE IF by_auth0_id(auth.users) # {}
          THEN [q EXCEPT !.pc = "returned",
                         !.user = CHOOSE u \in by_auth0_id(auth.users) : TRUE]
          ELSE [q EXCEPT !.pc = "lookup_email"]]
    /\ UNCHANGED <<rec, recExists, meta, playlist, tasks, reqPc, reqMeta,
                   resp, jobEnc, complete, run, hls, startup>>

\* Lines 137-138: the query by email; a miss enters the creation loop.
auth_lookup_email(r, db_ok) ==
    LET q == auth.reqs[r] IN
    /\ q.pc = "lookup_email"
    /\ auth' = [auth EXCEPT !.reqs[r] =
          IF ~db_ok THEN [q EXCEPT !.pc = "raised"]
          ELSE IF by_email(auth.users, q.email) # {}
          THEN [q EXCEPT !.pc = "returned",
                         !.user = CHOOSE u \in by_email(auth.users, q.email) :
                                     TRUE]
          ELSE [q EXCEPT !.pc = "check"]]
    /\ UNCHANGED <<rec, recExists, meta, playlist, tasks, reqPc, reqMeta,
                   resp, jobEnc, complete, run, hls, startup>>

\* The head of each attempt without the query of line 147: the attempt
\* goes straight to the insert.
auth_check_without_query(r, db_ok) ==
    LET q == auth.reqs[r] IN
    /\ q.pc = "check"
    /\ auth' = [auth EXCEPT !.reqs[r] =
          IF ~db_ok THEN attempt_failed(q, FALSE)
          ELSE [q EXCEPT !.pc = "insert"]]
    /\ UNCHANGED <<rec, recExists, meta, playlist, tasks, reqPc, reqMeta,
                   resp, jobEnc, complete, run, hls, startup>>

\* Lines 145-149: the check at the head of each attempt.
auth_check(r, db_ok) ==
    LET q == auth.reqs[r] IN
    /\ q.pc = "check"
    /\ auth' = [auth EXCEPT !.reqs[r] =
          IF ~db_ok THEN attempt_failed(q, FALSE)
          ELSE IF by_auth0_id(auth.users) # {}
          THEN [q EXCEPT !.pc = "returned",
                         !.user = CHOOSE u \in by_auth0_id(auth.users) : TRUE]
          ELSE [q EXCEPT !.pc = "insert"]]
    /\ UNCHANGED <<rec, recExists, meta, playlist, tasks, reqPc, reqMeta,
                   resp, jobEnc, complete, run, hls, startup>>

\* Lines 151-158: add, commit, refresh. The commit violates a unique
\* constraint when a row with the auth0_id or the email is there; else it
\* succeeds or fails by a datastore error, and after a commit the refresh
\* may fail.
auth_insert(r, outcome) ==
    LET q == auth.reqs[r]
        row == [auth0_id |-> Auth0Id, email |-> q.email]
        unique == by_auth0_id(auth.users) = {}
                     /\ by_email(auth.users, q.email) = {}
    IN
    /\ q.pc = "insert"
    /\ auth' =
          IF ~unique
          THEN [auth EXCEPT !.reqs[r] = attempt_failed(q, TRUE)]
          ELSE CASE outcome = "ok" ->
                      [users |-> auth.users \cup {row},
                       reqs |-> [auth.reqs EXCEPT
                                    ![r] = [q EXCEPT !.pc = "returned",
                                                     !.user = row]]]
                 [] outcome = "commit_error" ->
                      [auth EXCEPT !.reqs[r] = attempt_failed(q, FALSE)]
                 [] outcome = "refresh_error" ->
                      [users |-> auth.users \cup {row},
                       reqs |-> [auth.reqs EXCEPT
                                    ![r] = attempt_failed(q, FALSE)]]
    /\ UNCHANGED <<rec, recExists, meta, playlist, tasks, reqPc, reqMeta,
                   resp, jobEnc, complete, run, hls, startup>>

InitAuth ==
    /\ rec = [environment |-> "local", s3_path |-> FALSE]
    /\ recExists = TRUE
    /\ meta = EmptyMeta
    /\ playlist = FALSE
    /\ tasks = [t \in TaskIds |-> IdleTask]
    /\ reqPc = "idle"
    /\ reqMeta = EmptyMeta
    /\ resp = NoResponse
    /\ jobEnc = 0
    /\ complete = FALSE
    /\ run = NoRun
    /\ hls = NoHls /\ startup = NoStartup
    /\ auth \in [users : {{}},
                 reqs : [Requests -> [pc : {"lookup"}, retry_count : {0},
                                      conflicts : {0}, email : Emails,
                                      user : {NoUser}]]]

NextAuth ==
    \/ \E r \in Requests, db_ok \in BOOLEAN : auth_lookup(r, db_ok)
    \/ \E r \in Requests, db_ok \in BOOLEAN : auth_lookup_email(r, db_ok)
    \/ \E r \in Requests, db_ok \in BOOLEAN : auth_check(r, db_ok)
    \/ \E r \in Requests,
          outcome \in {"ok", "commit_error", "refresh_error"} :
          auth_insert(r, outcome)

SpecAuth == InitAuth /\ [][NextAuth]_vars

-----------------------------------------------------------------------------
\* Waiting for the datastore at startup: wait_for_db

\* The defaults of wait_for_db(max_retries=30, retry_interval=1), with
\* which the startup handler calls it (main.py 88), and the cap of the wait.
default_max_retries == 30
default_retry_interval == 1
wait_cap == 10

\* Other arguments a call may pass.
MaxAttempts == 6
RetryIntervals == {0, 1, 2, 3, 11}

WaitArguments ==
    {[max_retries |-> default_max_retries,
      retry_interval |-> default_retry_interval]}
        \cup [max_retries : 0 .. MaxAttempts, retry_interval : RetryIntervals]

min(a, b) == IF a <= b THEN a ELSE b

\* Lines 53-54 without the cap of line 54.
wait_time_uncapped(retry_interval, retries) == retry_interval * (2 ^ retries)

\* Lines 53-54: the exponential backoff, capped.
wait_time(retry_interval, retries) ==
    min(retry_interval * (2 ^ retries), wait_cap)

\* Lines 45-57: one turn of the loop. The connection attempt succeeds,
\* fails with OperationalError (the wait is slept and the attempt counted),
\* or fails with another exception, which propagates.
wait_for_db_attempt(outcome) ==
    /\ startup.pc = "loop"
    /\ startup.retries < startup.args.max_retries
    /\ startup' =
          CASE outcome = "connected" ->
                   [startup EXCEPT !.pc = "returned_true",
                                   !.attempts = @ + 1]
            [] outcome = "OperationalError" ->
                   [startup EXCEPT
                       !.attempts = @ + 1,
                       !.waits = Append(@, wait_time(startup.args.retry_interval,
                                                     startup.retries)),
                       !.retries = @ + 1]
            [] outcome = "other" ->
                   [startup EXCEPT !.pc = "propagated",
                                   !.attempts = @ + 1]
    /\ UNCHANGED <<rec, recExists, meta, playlist, tasks, reqPc, reqMeta,
                   resp, jobEnc, complete, run, hls, auth>>

\* Lines 44 and 59: the loop condition fails and the function raises.
wait_for_db_exhausted ==
    /\ startup.pc = "loop"
    /\ startup.retries >= startup.args.max_retries
    /\ startup' = [startup EXCEPT !.pc = "raised"]
    /\ UNCHANGED <<rec, recExists, meta, playlist, tasks, reqPc, reqMeta,
                   resp, jobEnc, complete, run, hls, auth>>

InitStartup ==
    /\ rec = [environment |-> "local", s3_path |-> FALSE]
    /\ recExists = TRUE
    /\ meta = EmptyMeta
    /\ playlist = FALSE
    /\ tasks = [t \in TaskIds |-> IdleTask]
    /\ reqPc = "idle"
    /\ reqMeta = EmptyMeta
    /\ resp = NoResponse
    /\ jobEnc = 0
    /\ complete = FALSE
    /\ run = NoRun
    /\ hls = NoHls /\ auth = NoAuth
    /\ startup \in [args : WaitArguments, pc : {"loop"}, retries : {0},
                    attempts : {0}, waits : {<<>>}]

NextStartup ==
    \/ \E outcome \in {"connected", "OperationalError", "other"} :
          wait_for_db_attempt(outcome)
    \/ wait_for_db_exhausted

\* The function runs in one thread of the startup handler, which keeps
\* running until it returns or raises.
SpecStartup == InitStartup /\ [][NextStartup]_vars /\ WF_vars(NextStartup)

-----------------------------------------------------------------------------
\* Properties

\* The playback request reaches submit_processing_job (line 481): it takes
\* the submission branch and its commit at 472 succeeds.
CallsSubmit(db_ok, broker_ok) ==
    /\ reqPc = "loaded" /\ db_ok /\ recExists
    /\ stream_decision(reqMeta, broker_ok) = "start"
    /\ stream_finish(db_ok, broker_ok)

\* The step enqueues a new process_recording_task.
Enqueues == \E t \in TaskIds : tasks[t].loc = "unused" /\ tasks'[t].loc = "broker"

PollOps == {"processing_status", "status"}

\* C1: De-duplication invariant: at most one non-terminal transcoding task
\* (queued in the broker, reserved by a worker, or executing) exists for the
\* recording at any time.
C1_AtMostOneUnfinishedTask == Cardinality(Unfinished) <= 1

\* C2: When a second submission is made before the first job is terminal
\* (also while the first task still waits in the broker queue), the
\* pipeline runs once: the encoder is invoked at most once for the jobs
\* submitted since the recording last had no unfinished task.
C2_EncoderInvokedOnce == jobEnc <= 1

\* C3: Whenever submit_processing_job is called while a
\* process_recording_task of the recording is reported active or reserved by
\* a worker, it returns the id of such a task and enqueues no new task.
C3_SubmitReturnsExistingTask ==
    [][\A db_ok \in BOOLEAN :
          (Active \cup Reserved # {} /\ CallsSubmit(db_ok, TRUE))
              => /\ resp'.task_id \in Active \cup Reserved
                 /\ resp'.status = "processing"
                 /\ ~Enqueues
                 /\ tasks' = tasks]_vars

\* C3 witness: a playback request has just been answered through
\* submit_processing_job with the id of a task that is executing.
C3_Witness ==
    /\ resp.op = "stream" /\ resp.status = "processing"
    /\ resp.task_id \in Active
    /\ tasks[resp.task_id].status = "PROGRESS"

\* C4: A task's tracker-reported state only moves forward (PENDING ->
\* PROGRESS -> SUCCESS or FAILURE, a task may fail before reporting
\* PROGRESS) and a terminal state is final: once FAILURE or SUCCESS is
\* reported, the reported state never changes again.
C4_TerminalStatesFinal ==
    [][\A t \in TaskIds :
          \/ tasks'[t].status = tasks[t].status
          \/ tasks[t].status = "PENDING"
                /\ tasks'[t].status \in {"PROGRESS", "FAILURE"}
          \/ tasks[t].status = "PROGRESS"
                /\ tasks'[t].status \in {"SUCCESS", "FAILURE"}]_vars

\* C5: Whenever process_recording_task returns after a failure of source
\* resolution, download, probing, transcoding, the final commit or an
\* unexpected exception, the recording's metadata has transcoding_status =
\* failed and a non-empty transcoding_error.
C5_FailureRecordedAtReturn ==
    \A t \in TaskIds :
        (ReturnsFailed(t) /\ tasks[t].error # "not_found" /\ recExists)
            => /\ meta.transcoding_status = "failed"
               /\ meta.transcoding_error # "none"

\* The poll-observable status is terminal.
PollTerminal ==
    processing_status_response(TRUE).status \in {"ready", "completed", "failed"}

\* C6: Every job submitted for an existing recording eventually reaches a
\* terminal status observable by polling: once every submitted task has been
\* run to its end and no request is in flight, the status poll reports
\* ready, completed or failed.
C6_SubmittedJobEndsTerminal ==
    (reqPc = "idle" /\ Unfinished = {} /\ Unused # TaskIds /\ recExists)
        => PollTerminal

C8_ResubmissionAfterFailure ==
    [][(/\ reqMeta = meta /\ meta.transcoding_status = "failed"
        /\ Unfinished = {} /\ Unused # TaskIds /\ recExists
        /\ stream_finish(TRUE, TRUE))
          => Enqueues]_vars

\* C9: Status polls are read-only: a step that answers
\* get_recording_processing_status or get_recording_status leaves the
\* metadata, the recording, the files and the task tracker unchanged and
\* enqueues no task.
C9_PollsReadOnly ==
    [][(/\ resp'.op \in PollOps \cup {"raise"}
        /\ get_recording_processing_status \/ get_recording_status)
          => /\ UNCHANGED <<rec, recExists, meta, playlist, tasks, jobEnc>>
             /\ ~Enqueues]_vars

\* C9 witness: a poll has just answered for a recording whose job ended
\* failed.
C9_Witness ==
    /\ resp.op \in PollOps /\ resp.status = "failed"
    /\ meta.transcoding_status = "failed"
    /\ Unfinished = {} /\ Unused # TaskIds

\* C10: Once the recording's job has ended failed (metadata
\* transcoding_status = failed, no task unfinished), every status poll that
\* answers reports failed.
C10_FailedPolledAsFailed ==
    (/\ resp.op \in PollOps /\ resp.status \notin {"http_500", "http_404"}
     /\ meta.transcoding_status = "failed" /\ Unfinished = {})
        => resp.status = "failed"

\* C11: Once the metadata records transcoding_status = completed, and while
\* the playlist file stays in place and the recording exists, no step of a
\* playback request, a status poll or a job execution changes
\* transcoding_status away from completed or drops hls_path or video_info.
C11_CompletedStaysCompleted ==
    [][(/\ meta.transcoding_status = "completed"
        /\ playlist /\ playlist' /\ recExists /\ recExists')
          => /\ meta'.transcoding_status = "completed"
             /\ meta'.hls_path
             /\ meta'.video_info # "none"]_vars

\* The normalized status vocabulary of the status poll.
NormalizedStatuses == {"queued", "processing", "completed", "failed"}

\* C12: Every response of get_recording_processing_status for an existing
\* recording carries a status of the normalized vocabulary {queued,
\* processing, completed, failed}.
C12_NormalizedVocabulary ==
    (resp.op = "processing_status"
        /\ resp.status \notin {"http_500", "http_404"})
        => resp.status \in NormalizedStatuses

\* C13: Whenever process_recording_task reaches its completed return, the
\* step that takes it there has committed metadata with hls_path, processed
\* = true, transcoding_status = completed, a transcoding_completed_at
\* timestamp and video_info equal to what this execution's probe returned;
\* the completed return is reached by no step that has not committed it.
C13_CompletedMetadataCommitted ==
    [][\A t \in TaskIds :
          (~ReturnsCompleted(t) /\ ReturnsCompleted(t)')
              => /\ meta'.hls_path /\ meta'.processed
                 /\ meta'.transcoding_status = "completed"
                 /\ meta'.transcoding_completed_at
                 /\ tasks[t].video_info # "none"
                 /\ meta'.video_info = tasks[t].video_info]_vars

\* C13 witness: a task is at its completed return with the probe's result
\* in the committed metadata.
C13_Witness ==
    \E t \in TaskIds :
        /\ ReturnsCompleted(t)
        /\ meta.transcoding_status = "completed"
        /\ meta.hls_path /\ meta.processed /\ meta.video_info = "info"

\* C14: Whenever the recording's job has ended failed (the metadata records
\* transcoding_status = failed), the metadata contains the error detail
\* (transcoding_error) together with can_retry = true.
C14_FailedMetadataCanRetry ==
    meta.transcoding_status = "failed"
        => meta.transcoding_error # "none" /\ meta.can_retry

\* C15: Every response of get_recording_processing_status that reports
\* failed, from the task tracker or from the metadata, carries a non-empty
\* error and can_retry = true.
C15_FailedPollWellFormed ==
    (resp.op = "processing_status" /\ resp.status = "failed")
        => resp.error # "none" /\ resp.can_retry

\* The metadata keys update_transcoding_status is not meant to touch agree
\* in m and m2.
OtherKeysKept(m, m2) ==
    /\ m2.hls_path = m.hls_path /\ m2.processed = m.processed
    /\ m2.video_info = m.video_info /\ m2.can_retry = m.can_retry
    /\ m2.transcoding_started_at = m.transcoding_started_at

\* m2 is m with the status, the completion timestamp and, when a message is
\* given, the error set, and nothing else changed.
StatusMerged(m, m2, status, error_message) ==
    /\ m2.transcoding_status = status
    /\ m2.transcoding_completed_at
    /\ m2.transcoding_error =
          IF error_message # "none" THEN error_message
          ELSE m.transcoding_error
    /\ OtherKeysKept(m, m2)

ReturnsPath(t) ==
    /\ tasks[t].pc \in {"process", "encode"}
    /\ tasks'[t].pc = "commit"

\* C17: Idempotent playlist reuse.  A call of process_video_for_streaming
\* that finds playlist.m3u8 in the output directory returns its path without
\* invoking the encoder.  Every call that returns a path leaves the playlist
\* in place and no step of the pipeline removes it, so of two successive
\* calls with no file removed in between the second finds the playlist: the
\* encoder is invoked at most once and both return the same path.
C17_PlaylistReuse ==
    [][/\ \A t \in TaskIds :
             /\ (Running(t, "process") /\ playlist
                    /\ tasks'[t].pc # "process")
                   => /\ ReturnsPath(t)
                      /\ jobEnc' = jobEnc
                      /\ playlist'
             /\ ReturnsPath(t) => playlist'
       /\ (playlist /\ ~playlist') => (tasks' = tasks /\ meta' = meta)]_vars

\* C17 witness: a call has returned the existing playlist, the encoder not
\* having been invoked by any task submitted with it.
C17_Witness ==
    \E t \in TaskIds :
        /\ Running(t, "commit") /\ playlist /\ jobEnc = 0
        /\ \A u \in TaskIds \ {t} : tasks[u].loc \in {"unused", "done"}

\* C18: create_hls_playlist returns a playlist path only if the encoder
\* exited with code 0 and the playlist file exists after the run; with a
\* non-zero exit code, or with exit code 0 and no playlist file, it raises
\* (the caller takes its failure exit) and returns no path.
C18_PathOnlyAfterSuccessfulEncoder ==
    [][\A t \in TaskIds, returncode \in {0, 1}, wrote \in BOOLEAN :
          (Running(t, "encode") /\ task_encode(t, returncode, wrote))
              => /\ ReturnsPath(t) <=> (returncode = 0 /\ playlist')
                 /\ ~ReturnsPath(t) => tasks'[t].pc = "fail_state"]_vars

\* C18 witness: the first task's encoder run has ended and
\* create_hls_playlist has returned the playlist path.
C18_Witness ==
    \E t \in TaskIds :
        /\ Running(t, "commit") /\ playlist /\ jobEnc = 1
        /\ \A u \in TaskIds \ {t} : tasks[u].loc = "unused"

\* C19: process_video_for_streaming never returns a (playlist path,
\* MediaInfo) result for a source whose probe fails (missing, unreadable or
\* without a video stream), whatever the output directory holds, so a job on
\* such a source never ends completed: every returned result, and every
\* completed metadata, carries a MediaInfo the probe produced.
C19_NoResultWithoutMediaInfo ==
    /\ \A t \in TaskIds : Running(t, "commit") => tasks[t].video_info = "info"
    /\ meta.transcoding_status = "completed" => meta.video_info = "info"

\* C20: The recording is reported ready to the playback client, or is
\* completed in its metadata with a playlist in place, only if that
\* playlist comes from an encoder invocation that exited successfully (exit
\* code 0 with the playlist present): a playlist left behind by a failed or
\* partial encoder run never makes the recording completed or ready.
C20_ReadyOnlyAfterSuccessfulEncoder ==
    (/\ playlist
     /\ \/ meta.transcoding_status = "completed"
        \/ resp.op = "stream" /\ resp.status = "ready")
        => complete

\* C21: For a local recording, the path the runner checks and hands to the
\* prober/transcoder is, after normalization, inside the recordings root
\* /recordings; a stored path that normalizes to a location outside the
\* root makes the job fail and no file is opened for it.
C21_LocalPathInsideRoot ==
    (/\ run.task # NotRun
     /\ run.outcomes.lookup = "found"
     /\ run.outcomes.environment = "local")
        => /\ InsideRoot(run.task.checked)
           /\ ~InsideRoot(run.outcomes.file_path)
                 => ~run.task.completed /\ run.task.opened = Missing

\* C22: For a remote recording, after process_recording_task has finished
\* on any exit path, no temporary file created for that job's download
\* remains on disk: neither the task's scoped temporary file nor the
\* intermediate temporary file created inside download_from_s3.
C22_NoTemporaryFileLeft ==
    (run.task # NotRun /\ run.outcomes.environment = "remote")
        => run.task.files = {}

\* The playback request, past the ready/failed answers, finds an existing
\* task for the recording.
FindsTask(m, broker_ok) ==
    /\ stream_decision(m, broker_ok) \notin {"ready", "failed"}
    /\ check_task_exists(broker_ok) # NoTask

\* The task the request finds is live: PENDING with a
\* transcoding_started_at at most 10 minutes old, STARTED or PROGRESS.
FindsLiveTask(m, broker_ok) ==
    /\ FindsTask(m, broker_ok)
    /\ LET existing_task == get_task_status(check_task_exists(broker_ok))
       IN  \/ /\ existing_task.status = "PENDING"
              /\ m.transcoding_started_at = "recent"
           \/ existing_task.status \in {"STARTED", "PROGRESS"}

\* C25: When a playback request finds an existing task that is still live,
\* it returns status processing with that task's id, does not modify the
\* recording's metadata and does not call the submit path.
C25_LiveTaskLeavesMetadata ==
    [][(/\ reqPc = "loaded" /\ recExists
        /\ FindsLiveTask(reqMeta, TRUE)
        /\ stream_finish(TRUE, TRUE))
          => /\ resp' = Response("stream", "processing",
                                 check_task_exists(TRUE), "none")
             /\ meta' = meta
             /\ ~CallsSubmit(TRUE, TRUE)]_vars

\* C26: When a playback request finds an existing task in PENDING state
\* whose transcoding_started_at is more than 10 minutes in the past, the
\* task is treated as stuck and that request enqueues a new
\* process_recording_task for the recording.
C26_StuckPendingRestarted ==
    [][(/\ reqPc = "loaded" /\ recExists /\ Unused # {}
        /\ FindsTask(reqMeta, TRUE)
        /\ get_task_status(check_task_exists(TRUE)).status = "PENDING"
        /\ reqMeta.transcoding_started_at = "old"
        /\ stream_finish(TRUE, TRUE))
          => Enqueues]_vars

\* Task t takes a step of process_recording_task.
TaskStep(t) == tasks[t].loc = "active" /\ tasks'[t] # tasks[t]

\* C24: If the recording row is deleted before or during a job's execution
\* (before the lookup, between the lookup and the final commit, or before a
\* failure status write), process_recording_task still goes on to its
\* return, reports FAILURE there rather than the completed result, writes
\* nothing and does not re-create the recording.
C24_DeletedRecordingFailsJob ==
    [][\A t \in TaskIds :
          (~recExists /\ TaskStep(t))
              => /\ ~recExists' /\ meta' = meta /\ rec' = rec
                 /\ ~ReturnsCompleted(t) => ~ReturnsCompleted(t)'
                 /\ (tasks[t].pc # "ret" /\ tasks'[t].pc = "ret")
                       => tasks'[t].status = "FAILURE"]_vars

\* C24 witness: the only task's encoder run succeeded, the row is gone and
\* the task is at its return with FAILURE reported.
C24_Witness ==
    \E t \in TaskIds :
        /\ ReturnsFailed(t) /\ ~recExists
        /\ tasks[t].error = "error_msg"
        /\ complete /\ jobEnc = 1
        /\ \A u \in TaskIds \ {t} : tasks[u].loc = "unused"

\* Some task of the recording was killed at the hard time limit.
HardKilled ==
    \E t \in TaskIds :
        tasks[t].loc = "done" /\ tasks[t].error = "TimeLimitExceeded"

\* C23: When a running transcode task is forcibly killed at the hard time
\* limit, the job is marked failed in the recording's metadata: once no
\* task is left and no request is in flight, so that nothing is going to
\* write the metadata any more, the recording is not in transcoding_status
\* = in_progress.
C23_HardKillMarkedFailed ==
    (HardKilled /\ Unfinished = {} /\ reqPc = "idle" /\ recExists)
        => meta.transcoding_status # "in_progress"

\* C27: After a playback request has been answered delayed_processing, the
\* video is processed when the broker is reachable again without a further
\* playback request: the request leaves behind a job that will be executed,
\* that is, a task of the recording is queued, reserved or executing.
C27_DelayedProcessingHasJob ==
    (resp.op = "stream" /\ resp.status = "delayed_processing")
        => Unfinished # {}

\* C28: A download failure is written to the metadata as failed only after
\* the runner's bounded retry has been attempted: the task has been
\* re-executed max_retries = 3 times when failed is recorded, and no
\* submitted task is ever executed more than 4 times.
C28_FailedOnlyAfterRetries ==
    [][\A t \in TaskIds :
          /\ (/\ Running(t, "download") /\ tasks'[t].pc = "fail_state"
              /\ recExists /\ meta'.transcoding_status = "failed")
                => Executions(t) = 1 + max_retries
          /\ Executions(t) <= 1 + max_retries]_vars

\* What the runners' contract fixes of the metadata an execution leaves.
Contract(m) ==
    [transcoding_status |-> m.transcoding_status, hls_path |-> m.hls_path,
     processed |-> m.processed, has_error |-> m.transcoding_error # "none"]

\* C29: The inline runner (process_recording_background) and the queue
\* runner (process_recording_task) obey the same contract: executed for the
\* same recording on the same outcomes of their collaborators, both leave
\* the metadata with the same transcoding_status, hls_path, processed flag
\* and presence of transcoding_error.
C29_RunnersSameContract ==
    (run.task # NotRun /\ run.background # NotRun)
        => Contract(run.task.meta) = Contract(run.background.meta)

\* C30: get_recording_status answers from the metadata, the status string
\* taking precedence over the legacy flag: the transcoding_status value when
\* that key is present, otherwise completed when processed is true,
\* otherwise unknown; the error is included only when the status is failed,
\* hls_path and video_info only when the status is completed.
C30_StatusStringOverLegacyFlag ==
    resp.op = "status"
        => /\ resp.status =
                 IF meta.transcoding_status # "none"
                 THEN meta.transcoding_status
                 ELSE IF meta.processed THEN "completed" ELSE "unknown"
           /\ resp.error # "none" => resp.status = "failed"
           /\ resp.status = "failed" => resp.error = meta.transcoding_error
           /\ (resp.hls_path # "absent" \/ resp.video_info # "absent")
                 <=> resp.status = "completed"
           /\ resp.hls_path = "path" => meta.hls_path
           /\ resp.video_info = "info" => meta.video_info = "info"

\* C30 witness: a recording with the legacy flag and no status string has
\* been answered completed with its HLS information.
C30_Witness ==
    /\ resp.op = "status" /\ resp.status = "completed"
    /\ meta.transcoding_status = "none" /\ meta.processed
    /\ resp.hls_path = "path" /\ resp.video_info = "info"

\* C31: in every reachable state of a recording's metadata the legacy flag
\* and the status string agree: processed = TRUE implies
\* transcoding_status = "completed".
C31_FlagAgreesWithStatus ==
    meta.processed => meta.transcoding_status = "completed"

\* The request carries a token that verifies and names a user, that user
\* owns the recording or is associated with an active device whose key is
\* the recording's stream name or the stream_id of its metadata, and the
\* metadata records completed processing.
MayReadPlaylist ==
    /\ hls.request.token.form = "signed"
    /\ hls.request.token.user_id \in Users
    /\ \/ hls.request.token.user_id = Owner
       \/ \E k \in ({StreamName, hls.rows.stream_id} \cap StreamKeys) :
             /\ hls.request.token.user_id \in hls.rows.devices[k].users
             /\ hls.rows.devices[k].is_active
    /\ meta.transcoding_status = "completed" \/ meta.processed

\* C32: get_hls_file serves playlist.m3u8 only to a request that may read
\* it; every other playlist request is answered with 401, 403, 404 or 400
\* and no file content.
C32_PlaylistOnlyToAuthorized ==
    hls.request.file_name = "playlist.m3u8"
        => /\ hls.response.file = "playlist.m3u8" => MayReadPlaylist
           /\ ~MayReadPlaylist
                 => /\ hls.response.status_code \in {401, 403, 404, 400}
                    /\ hls.response.file = "none"

\* C32 as amended: get_hls_file serves playlist.m3u8 only to a request that
\* may read it; every other playlist request is answered with 401, 403,
\* 404, 400 or 500 and no file content.
C32_PlaylistOnlyToAuthorizedOr500 ==
    hls.request.file_name = "playlist.m3u8"
        => /\ hls.response.file = "playlist.m3u8" => MayReadPlaylist
           /\ ~MayReadPlaylist
                 => /\ hls.response.status_code \in {401, 403, 404, 400, 500}
                    /\ hls.response.file = "none"

\* C32 witness: the playlist has been served to a user who does not own the
\* recording, through an active device of the metadata's stream_id.
C32_Witness ==
    /\ hls.request.file_name = "playlist.m3u8"
    /\ hls.response = HlsResponse(200, "playlist.m3u8")
    /\ hls.request.token.user_id # Owner
    /\ hls.request.token.user_id \notin hls.rows.devices[StreamName].users

\* The request has ended: with a user, with the HTTP 500 of the creation
\* loop, or with the datastore's exception of the first lookups.
Ended(r) == auth.reqs[r].pc \in {"returned", "gave_up", "raised"}

\* C33: concurrent first requests of one user leave at most one User row
\* for the auth0_id, and exactly one once a request has returned; a request
\* that returns holds that row; a request whose attempts failed only by
\* the race (unique violations) returns the user; a request gives up only
\* after create_max_retries failed attempts.
C33_OneUserRowForConcurrentRequests ==
    /\ Cardinality(by_auth0_id(auth.users)) <= 1
    /\ \A r \in Requests :
          LET q == auth.reqs[r] IN
          /\ q.pc = "returned"
                => /\ by_auth0_id(auth.users) = {q.user}
                   /\ q.user.auth0_id = Auth0Id
          /\ (q.pc = "gave_up") => (q.retry_count = create_max_retries)
          /\ (Ended(r) /\ q.retry_count = q.conflicts /\ q.pc # "raised")
                => q.pc = "returned"
          /\ q.conflicts <= 1

\* C33 witness: every request has returned, one of them after losing the
\* race for the insert once.
C33_Witness ==
    /\ \A r \in Requests : auth.reqs[r].pc = "returned"
    /\ \E r \in Requests :
          auth.reqs[r].conflicts = 1 /\ auth.reqs[r].retry_count = 1

\* What holds of wait_for_db at every moment: at most max_retries attempts;
\* it returns True exactly at an attempt that connected, and raises at line
\* 59 exactly after max_retries failed attempts; the wait after the k-th
\* failed attempt (k from 0) is the smaller of retry_interval * 2^k and 10,
\* so waits never decrease and never exceed 10.
WaitsBounded ==
    LET s == startup IN
    /\ s.attempts <= s.args.max_retries
    /\ Len(s.waits) = s.retries
    /\ s.pc = "raised"
          => (s.retries = s.args.max_retries /\ s.attempts = s.retries)
    /\ s.pc = "returned_true" => s.attempts = s.retries + 1
    /\ \A k \in 1 .. Len(s.waits) :
          /\ s.waits[k] <= 10
          /\ s.waits[k]
                = (IF s.args.retry_interval * (2 ^ (k - 1)) < 10
                   THEN s.args.retry_interval * (2 ^ (k - 1)) ELSE 10)
          /\ k > 1 => s.waits[k - 1] <= s.waits[k]

\* C34: wait_for_db terminates, and until then WaitsBounded holds.
C34_WaitForDbTerminates ==
    /\ []WaitsBounded
    /\ <>(startup.pc \in {"returned_true", "raised", "propagated"})

\* C34 witness: the default call has raised after 30 failed attempts, the
\* last waits at the cap.
C34_Witness ==
    /\ startup.args.max_retries = default_max_retries
    /\ startup.pc = "raised"
    /\ startup.waits[1] = 1 /\ startup.waits[default_max_retries] = 10

====
